---- MODULE Spec2Model ----
(***************************************************************************)
(* led - the line editor of src/src/led.c.                                 *)
(*                                                                         *)
(* The model follows main(): buffer_setup (with buffer_load when a backing *)
(* file was given), then one cmd_process call per token of the input       *)
(* stream until it returns 1, then buffer_clean.  A token is a sequence of *)
(* one-character strings; numbers keep the width of their C type.          *)
(***************************************************************************)
EXTENDS Integers, Sequences, FiniteSets, TLC

VARIABLES pc, configs, fs, fpos, buffer, input, hist,
          cmd, cmd_line, cmd_id, cmd_count, out, err,
          page, page_state

\* the state of led.c, and the state of a Page of Page.cpp
ledvars == <<pc, configs, fs, fpos, buffer, input, hist,
             cmd, cmd_line, cmd_id, cmd_count, out, err>>
pagevars == <<page, page_state>>
vars == <<ledvars, pagevars>>

(***************************************************************************)
(* Bounds of the model.                                                    *)
(***************************************************************************)
\* longest input stream drawn over SessionTokens
MaxInput == 2
\* longest token drawn over ParseAlphabet
MaxTokLen == 3
\* most lines of the backing file a.txt
MaxFileLines == 2
\* largest cursor coordinate of a Page
MaxCoord == 2
\* configs.buffer_length as set with --bl
BufferLength == 4

(***************************************************************************)
(* C integer types.                                                        *)
(***************************************************************************)
INT_MAX == 2147483647
INT_MIN == -2147483647 - 1
\* a size_t too large to be a line of any buffer of the model: stands for
\* every value of cmd_line from 10^9 up (a negative long converts to one)
SIZE_HUGE == 2147483647
\* LONG_MAX, as decimal digits
LONG_MAX_DIGITS == <<9,2,2,3,3,7,2,0,3,6,8,5,4,7,7,5,8,0,7>>

\* C's / and % by 10 truncate toward zero
CDiv10(a) == IF a < 0 /\ a % 10 # 0 THEN (a \div 10) + 1 ELSE a \div 10
CMod10(a) == IF a < 0 /\ a % 10 # 0 THEN (a % 10) - 10 ELSE a % 10

(***************************************************************************)
(* Strings: sequences of one-character strings.                            *)
(***************************************************************************)
DigitChars == <<"0", "1", "2", "3", "4", "5", "6", "7", "8", "9">>
IsDigit(c) == \E i \in 1..10 : DigitChars[i] = c
DigitVal(c) == (CHOOSE i \in 1..10 : DigitChars[i] = c) - 1

\* the length of the run of digits of s that starts at position i
RECURSIVE DigitRun(_, _)
DigitRun(s, i) ==
    IF i <= Len(s) /\ IsDigit(s[i]) THEN 1 + DigitRun(s, i + 1) ELSE 0

RECURSIVE StripZeros(_)
StripZeros(ds) ==
    IF ds # <<>> /\ ds[1] = 0 THEN StripZeros(Tail(ds)) ELSE ds

\* a > b for digit sequences of the same length
RECURSIVE DigitsGreater(_, _)
DigitsGreater(a, b) ==
    IF a = <<>> THEN FALSE
    ELSE IF a[1] # b[1] THEN a[1] > b[1]
    ELSE DigitsGreater(Tail(a), Tail(b))

\* the magnitude ds (no leading zeros) does not fit a long: strtol clamps
LongOverflows(ds, neg) ==
    \/ Len(ds) > 19
    \/ /\ Len(ds) = 19
       /\ DigitsGreater(ds, IF neg THEN <<9,2,2,3,3,7,2,0,3,6,8,5,4,7,7,5,8,0,8>>
                                   ELSE LONG_MAX_DIGITS)

\* ds mod 2^32 as <<high 16 bits, low 16 bits>>
RECURSIVE Mod32(_, _)
Mod32(ds, acc) ==
    IF ds = <<>> THEN acc
    ELSE LET lo == acc[2] * 10 + ds[1]
             hi == acc[1] * 10 + lo \div 65536
         IN  Mod32(Tail(ds), <<hi % 65536, lo % 65536>>)

Neg32(w) ==
    IF w = <<0, 0>> THEN w
    ELSE <<(65535 - w[1] + (IF w[2] = 0 THEN 1 ELSE 0)) % 65536,
           (65536 - w[2]) % 65536>>

Signed32(w) ==
    IF w[1] >= 32768 THEN (w[1] - 65536) * 65536 + w[2]
    ELSE w[1] * 65536 + w[2]

\* the value of a digit sequence of at most 9 digits
RECURSIVE SmallValue(_, _)
SmallValue(ds, acc) ==
    IF ds = <<>> THEN acc ELSE SmallValue(Tail(ds), acc * 10 + ds[1])

(***************************************************************************)
(* strtol(nptr, &endptr, 10) on a string without white space: an optional  *)
(* sign, then the longest run of digits.  The long it returns is kept as   *)
(* sign and decimal digits; with no digit at all nothing is converted and  *)
(* endptr is nptr.                                                         *)
(***************************************************************************)
strtol(nptr) ==
    LET signed == nptr # <<>> /\ nptr[1] \in {"+", "-"}
        start  == IF signed THEN 2 ELSE 1
        n      == DigitRun(nptr, start)
    IN  IF n = 0
        THEN [neg |-> FALSE, digits |-> <<>>, endptr |-> nptr]
        ELSE [neg    |-> signed /\ nptr[1] = "-",
              digits |-> StripZeros([i \in 1..n |-> DigitVal(nptr[start + i - 1])]),
              endptr |-> SubSeq(nptr, start + n, Len(nptr))]

\* the conversion of strtol's long to size_t (cmd_line = strtol(...))
LongToSizeT(l) ==
    IF l.digits = <<>> THEN 0
    ELSE IF l.neg \/ Len(l.digits) > 9 THEN SIZE_HUGE
    ELSE SmallValue(l.digits, 0)

\* the conversion of strtol's long to int (cmd_count = strtol(...)): the
\* low 32 bits, of LONG_MAX or LONG_MIN when strtol clamped
LongToInt(l) ==
    IF LongOverflows(l.digits, l.neg) THEN (IF l.neg THEN 0 ELSE -1)
    ELSE LET w == Mod32(l.digits, <<0, 0>>)
         IN  Signed32(IF l.neg THEN Neg32(w) ELSE w)

(***************************************************************************)
(* string_reverse, decimal_reverse, decimal_remove_last_digit.             *)
(***************************************************************************)
string_reverse(str) == [i \in 1..Len(str) |-> str[Len(str) + 1 - i]]

\* rev * 10 + d leaves the range of int: signed overflow, undefined
MulAddOverflows(rev, d) ==
    \/ rev > CDiv10(INT_MAX)
    \/ rev = CDiv10(INT_MAX) /\ d > CMod10(INT_MAX)
    \/ rev < CDiv10(INT_MIN)
    \/ rev = CDiv10(INT_MIN) /\ d < CMod10(INT_MIN)

\* the loop of decimal_reverse; ub when rev*10 + num%10 overflows
RECURSIVE decimal_reverse_loop(_, _)
decimal_reverse_loop(num, rev) ==
    IF num = 0 THEN [ub |-> FALSE, val |-> rev]
    ELSE IF MulAddOverflows(rev, CMod10(num)) THEN [ub |-> TRUE, val |-> 0]
    ELSE decimal_reverse_loop(CDiv10(num), rev * 10 + CMod10(num))

decimal_reverse(num) == decimal_reverse_loop(num, 0)

\* a faulty variant: the sentinel digit is left on the count
decimal_remove_last_digit_kept(num) == num

decimal_remove_last_digit(num) == CDiv10(num)

\* what an overflowed decimal_reverse may return
UBInts == {-1256450149, 0, 12}

(***************************************************************************)
(* The head of cmd_process: the token cmd is split into cmd_line, cmd_id   *)
(* and cmd_count.  ubInt is the value an overflowed decimal_reverse gives. *)
(***************************************************************************)
\* cmd_line = strtol(cmd, &cmd_temp, 10); if (!cmd_line) cmd_line = current_line
ParseLine(tok, current_line) ==
    LET n == LongToSizeT(strtol(tok))
    IN  IF n = 0 THEN current_line ELSE n

\* cmd_temp after strcat(cmd_temp, "1") and string_reverse(cmd_temp)
ReversedTemp(tok) == string_reverse(strtol(tok).endptr \o <<"1">>)

\* cmd_id: what strtol leaves of the reversed string
ParseId(tok) == strtol(ReversedTemp(tok)).endptr

\* cmd_count, from strtol of the reversed string to the default of 1
ParseCount(tok, ubInt) ==
    LET n   == LongToInt(strtol(ReversedTemp(tok)))
        r   == decimal_reverse(n)
        rev == IF r.ub THEN ubInt ELSE r.val
        c   == decimal_remove_last_digit(rev)
    IN  IF c = 0 THEN 1 ELSE c

(***************************************************************************)
(* The line buffer.  line_ptr[i] is the C slot *(buffer.line_ptr + i - 1); *)
(* a loaded line is kept without its newline, a slot never loaded is "".   *)
(***************************************************************************)
Max(a, b) == IF a >= b THEN a ELSE b

\* stdout records: a numbered line, or a message
OutLine(n, s) == [k |-> "line", n |-> n, s |-> s]
OutMsg(k, n) == [k |-> k, n |-> n, s |-> ""]
\* what an out-of-bounds read of a line slot prints, when it prints
Garbage == "<garbage>"

\* buffer_load: getline into slot after slot until EOF; ub when the calls
\* reach past the buffer.length allocated slots
buffer_load(buf, content) ==
    LET count == Len(content)
    IN  [buffer |-> [buf EXCEPT
                       !.current_line = 1,
                       !.last_line = count,
                       !.line_ptr = [i \in 1..Max(Len(buf.line_ptr), count) |->
                                        IF i <= count THEN content[i]
                                        ELSE buf.line_ptr[i]]],
         ub |-> count >= buf.length]

\* buffer_setup, before its call of buffer_load
buffer_alloc(cfg, buf) ==
    [buf EXCEPT !.length = cfg.buffer_length,
                !.line_ptr = [i \in 1..cfg.buffer_length |-> ""]]

\* the lines 1..last_line, as the loops of v and w walk them
Export(buf) == [i \in 1..buf.last_line |-> buf.line_ptr[i]]

\* fprintf of lines at position pos of a file, positions counted in lines
WriteAt(content, pos, lines) ==
    [i \in 1..Max(Len(content), pos + Len(lines)) |->
        IF i > pos /\ i <= pos + Len(lines) THEN lines[i - pos] ELSE content[i]]

(***************************************************************************)
(* The cases of the switch of cmd_process.  Each gives the buffer and the  *)
(* stdout records it leaves; crashed tells a read outside the allocated    *)
(* slots ended the process.                                                *)
(***************************************************************************)
\* case 'v'
cmd_view(buf) == [i \in 1..buf.last_line |-> OutLine(i, buf.line_ptr[i])]

\* the while (cmd_count--) loop of case 'r'.  It prints the slot under
\* buffer.current_line, numbered cmd_line.  A slot outside 1..length is
\* read out of bounds: ubRead says whether that read crashes or prints
\* garbage; a negative count never reaches 0 and ends out of bounds.
RECURSIVE cmd_read_loop(_, _, _, _, _)
cmd_read_loop(buf, line, count, printed, ubRead) ==
    IF count = 0
    THEN [buffer |-> buf, out |-> printed, crashed |-> FALSE]
    ELSE LET inside == buf.current_line >= 1 /\ buf.current_line <= buf.length
             text   == IF inside THEN buf.line_ptr[buf.current_line] ELSE Garbage
         IN  IF ~inside /\ (ubRead = "crash" \/ count < 0)
             THEN [buffer |-> buf, out |-> printed, crashed |-> TRUE]
             ELSE cmd_read_loop([buf EXCEPT !.current_line = line + 1],
                                line + 1,
                                IF count < 0 THEN count ELSE count - 1,
                                Append(printed, OutLine(line, text)),
                                ubRead)

\* case 'r'
cmd_read(buf, line, count, ubRead) ==
    IF line <= buf.last_line
    THEN cmd_read_loop(buf, line, count, <<>>, ubRead)
    ELSE [buffer |-> buf, out |-> <<OutMsg("EOF", 0)>>, crashed |-> FALSE]

\* case 'l'
cmd_lineno(buf) == <<OutMsg("Line", buf.current_line)>>

\* a faulty variant: case 's' without the test against last_line
cmd_setline_unchecked(buf, line) ==
    IF line < 1
    THEN [buffer |-> buf, out |-> <<OutMsg("Invalid line number", 0)>>]
    ELSE [buffer |-> [buf EXCEPT !.current_line = line],
          out    |-> <<OutMsg("Set Line", line)>>]

\* case 's'
cmd_setline(buf, line) ==
    IF line < 1
    THEN [buffer |-> buf, out |-> <<OutMsg("Invalid line number", 0)>>]
    ELSE IF line > buf.last_line
    THEN [buffer |-> buf, out |-> <<OutMsg("EOF", 0)>>]
    ELSE [buffer |-> [buf EXCEPT !.current_line = line],
          out    |-> <<OutMsg("Set Line", line)>>]

\* cases 'i', 'a' and 'c': empty
cmd_insert(buf) == buf
cmd_append(buf) == buf
cmd_change(buf) == buf

\* the ids the switch has a case for
CaseIds == {"f", "v", "r", "l", "s", "i", "a", "c", "w", "q"}

\* strlen(cmd_id) == 1 and the switch has a case for *cmd_id
IsCase(id) == Len(id) = 1 /\ id[1] \in CaseIds

(***************************************************************************)
(* The tail of cmd_process, from the strlen test to the return.  st is     *)
(* the state it runs in, p the parsed token, file_name what case 'f'       *)
(* reads from stdin.                                                       *)
(***************************************************************************)
Unchanged(st) ==
    [pc |-> "loop", configs |-> st.configs, fs |-> st.fs, fpos |-> st.fpos,
     buffer |-> st.buffer, out |-> <<>>, err |-> <<>>]

\* a faulty variant: the default case treated as setline
InvalidCommandSetsLine(st) ==
    [Unchanged(st) EXCEPT !.buffer = [st.buffer EXCEPT !.current_line = 1]]

\* strlen(cmd_id) != 1, and the default case of the switch
InvalidCommand(st) == [Unchanged(st) EXCEPT !.err = <<"Invalid command">>]

\* a faulty variant: case 'q' falls out of the switch to return 0
cmd_quit_returns_0(st) ==
    [Unchanged(st) EXCEPT !.out = <<OutMsg("Exiting program", 0)>>]

\* case 'q': return 1, which ends the loop of main()
cmd_quit(st) ==
    [Unchanged(st) EXCEPT !.out = <<OutMsg("Exiting program", 0)>>, !.pc = "exit"]

\* the fprintf loop of case 'w': the lines go to output_stream at its
\* position, which they advance; with no backing file they go to stdout
WriteLines(st) ==
    IF st.configs.output_stream = "stdout"
    THEN [Unchanged(st) EXCEPT
            !.out = <<OutMsg("Writing file", 0)>> \o
                    [i \in 1..st.buffer.last_line |->
                        OutLine(0, st.buffer.line_ptr[i])]]
    ELSE [Unchanged(st) EXCEPT
            !.out = <<OutMsg("Writing file", 0)>>,
            !.fs = [st.fs EXCEPT ![st.configs.output_stream] =
                       WriteAt(@, st.fpos, Export(st.buffer))],
            !.fpos = st.fpos + st.buffer.last_line]

\* a faulty variant: case 'w' leaves the cursor past the last line written
cmd_write_moves_cursor(st) ==
    [WriteLines(st) EXCEPT !.buffer.current_line = st.buffer.last_line + 1]

\* case 'w'
cmd_write(st) == WriteLines(st)

Dispatch(st, p, ubRead, file_name) ==
    IF ~IsCase(p.id) THEN InvalidCommand(st)
    ELSE CASE p.id[1] = "f" ->
                LET exists  == file_name \in DOMAIN st.fs
                    fs1     == IF exists THEN st.fs
                               ELSE [n \in DOMAIN st.fs \cup {file_name} |->
                                        IF n = file_name THEN <<>> ELSE st.fs[n]]
                    ld      == buffer_load(st.buffer, fs1[file_name])
                IN  [Unchanged(st) EXCEPT
                       !.configs = [st.configs EXCEPT !.output_stream = file_name],
                       !.fs = fs1,
                       !.fpos = 0,
                       !.buffer = ld.buffer,
                       !.pc = IF ld.ub /\ ubRead = "crash" THEN "crashed" ELSE "loop",
                       !.out = <<OutMsg(IF exists THEN "Editing file"
                                        ELSE "Creating file", 0)>>]
           [] p.id[1] = "v" ->
                [Unchanged(st) EXCEPT !.out = cmd_view(st.buffer)]
           [] p.id[1] = "r" ->
                LET rd == cmd_read(st.buffer, p.line, p.count, ubRead)
                IN  [Unchanged(st) EXCEPT
                       !.buffer = rd.buffer,
                       !.out = rd.out,
                       !.pc = IF rd.crashed THEN "crashed" ELSE "loop"]
           [] p.id[1] = "l" ->
                [Unchanged(st) EXCEPT !.out = cmd_lineno(st.buffer)]
           [] p.id[1] = "s" ->
                LET sl == cmd_setline(st.buffer, p.line)
                IN  [Unchanged(st) EXCEPT !.buffer = sl.buffer, !.out = sl.out]
           [] p.id[1] = "i" ->
                [Unchanged(st) EXCEPT !.buffer = cmd_insert(st.buffer)]
           [] p.id[1] = "a" ->
                [Unchanged(st) EXCEPT !.buffer = cmd_append(st.buffer)]
           [] p.id[1] = "c" ->
                [Unchanged(st) EXCEPT !.buffer = cmd_change(st.buffer)]
           [] p.id[1] = "w" -> cmd_write(st)
           [] p.id[1] = "q" -> cmd_quit(st)

(***************************************************************************)
(* Inputs: the backing files, the tokens and the input streams.            *)
(***************************************************************************)
DEFAULTLINEWIDTH == 80

\* a.txt holds alpha, beta, alpha, ... ; b.txt holds beta; big.txt holds one
\* line more than the buffer is allocated for; new.txt is absent
FileLines(n) == [i \in 1..n |-> IF i % 2 = 1 THEN "alpha" ELSE "beta"]
\* the names case 'f' may read from stdin
FileNames == {"b.txt", "big.txt", "new.txt"}

\* the tokens of the session streams
SessionTokens ==
    { <<"v">>, <<"r">>, <<"2", "r">>, <<"r", "2">>, <<"l">>,
      <<"2", "s">>, <<"3", "s">>, <<"a">>, <<"1", "i", "3">>, <<"c">>,
      <<"w">>, <<"q">>, <<"f">>, <<"x">>, <<"+", "2", "s">> }

\* every token of 1..MaxTokLen characters over ParseAlphabet
ParseAlphabet == {"0", "1", "2", "s", "x", "+"}
ShortTokens ==
    UNION { [1..n -> ParseAlphabet] : n \in 1..MaxTokLen }

\* further tokens: counts with trailing zeros, digit runs past int and
\* long, addresses and counts on the commands that take none
LongTokens ==
    { <<"2", "l">>, <<"2", "v", "3">>, <<"1", "w", "2">>,
      <<"1", "s", "1", "0">>,
      <<"2", "x", "1", "0", "0">>,
      <<"1", "2", "l", "0", "1", "0">>,
      <<"s", "5", "6", "7", "1", "0", "9", "4", "8", "8", "2">>,
      <<"r", "5", "6", "7", "1", "0", "9", "4", "8", "8", "2">>,
      <<"s", "1", "9", "9", "9", "9", "9", "9", "9", "9", "9">>,
      <<"1", "2", "3", "4", "5", "6", "7", "8", "9", "0", "1", "s">>,
      <<"-", "1", "q">>,
      <<"x", "9", "9", "9", "9", "9", "9", "9", "9", "9", "9",
             "9", "9", "9", "9", "9", "9", "9", "9", "9", "9">> }

\* a token as long as a token may be: l and DEFAULTLINEWIDTH - 1 zeros
WideToken == [i \in 1..DEFAULTLINEWIDTH |-> IF i = 1 THEN "l" ELSE "0"]

ParseTokens == ShortTokens \cup LongTokens \cup {WideToken}

\* the sequences of at most n tokens of S
RECURSIVE SeqUpTo(_, _)
SeqUpTo(S, n) ==
    IF n = 0 THEN {<<>>}
    ELSE LET shorter == SeqUpTo(S, n - 1)
         IN  shorter \cup { Append(q, t) : q \in shorter, t \in S }

\* scripted sessions longer than MaxInput
Scenarios ==
    { << <<"v">>, <<"2", "s">>, <<"a">> >>,
      << <<"v">>, <<"2", "s">>, <<"a">>, <<"w">> >>,
      << <<"2", "s">>, <<"w">>, <<"w">> >> }

\* the input streams: sessions, single tokens, scripts
Streams ==
    SeqUpTo(SessionTokens, MaxInput) \cup { <<t>> : t \in ParseTokens } \cup Scenarios

(***************************************************************************)
(* The state machine of main().                                            *)
(***************************************************************************)
\* the globals at program start, after args_process: configs as set from
\* the command line, buffer zero-initialised, no token read
Init ==
    /\ pc = "start"
    /\ configs \in { [output_stream |-> o, buffer_length |-> BufferLength,
                      line_width |-> DEFAULTLINEWIDTH] : o \in {"stdout", "a.txt"} }
    /\ fs \in { [n \in {"a.txt", "b.txt", "big.txt"} |->
                   CASE n = "a.txt" -> FileLines(k)
                     [] n = "b.txt" -> <<"beta">>
                     [] n = "big.txt" -> FileLines(BufferLength + 1)] :
                k \in 0..MaxFileLines }
    /\ fpos = 0
    /\ buffer = [length |-> 0, last_line |-> 0, current_line |-> 0, line_ptr |-> <<>>]
    /\ input \in Streams
    /\ hist = <<>>
    /\ cmd = <<>>
    /\ cmd_line = 0
    /\ cmd_id = <<>>
    /\ cmd_count = 0
    /\ out = <<>>
    /\ err = <<>>
    /\ page = [lines |-> << <<>> >>, cursor |-> [x |-> 0, y |-> 0]]
    /\ page_state = "live"

\* buffer_setup(): allocate the slots, load the backing file if there is one
BufferSetup ==
    /\ pc = "start"
    /\ \E ubRead \in {"crash", "go on"} :
        LET alloc == buffer_alloc(configs, buffer)
            ld    == buffer_load(alloc, fs[configs.output_stream])
        IN  IF configs.output_stream = "stdout"
            THEN buffer' = alloc /\ pc' = "loop"
            ELSE /\ buffer' = ld.buffer
                 /\ pc' = IF ld.ub /\ ubRead = "crash" THEN "crashed" ELSE "loop"
    /\ UNCHANGED <<configs, fs, fpos, input, hist,
                   cmd, cmd_line, cmd_id, cmd_count, out, err>>
    /\ UNCHANGED pagevars

\* the values decimal_reverse may leave for the count of tok
CountOutcomes(tok) ==
    IF decimal_reverse(LongToInt(strtol(ReversedTemp(tok)))).ub THEN UBInts ELSE {0}

\* the outcomes of a read or write outside the allocated slots
UBOutcomes(id) ==
    IF IsCase(id) /\ id[1] \in {"r", "f"} THEN {"crash", "go on"} ELSE {"go on"}

\* the file names case 'f' may read from stdin
StdinNames(id) ==
    IF IsCase(id) /\ id[1] = "f" THEN FileNames ELSE {"b.txt"}

\* the bytes of the array cmd that parsing tok writes: fscanf stores the
\* token and its terminator, strcat puts "1" on the terminator and a new
\* terminator after it
StorageUsed(tok) == Len(tok) + 2

\* the array cmd, in bytes
StorageSize == DEFAULTLINEWIDTH + 1

\* the outcomes of the write of strcat, which is undefined past the array
StoreOutcomes(tok) ==
    IF StorageUsed(tok) > StorageSize THEN {"crash", "go on"} ELSE {"go on"}

\* cmd_process() on the next token of the input stream
CmdProcess ==
    /\ pc = "loop"
    /\ input # <<>>
    /\ \E ubInt \in CountOutcomes(Head(input)),
          ubRead \in UBOutcomes(ParseId(Head(input))),
          ubStore \in StoreOutcomes(Head(input)),
          file_name \in StdinNames(ParseId(Head(input))) :
        LET tok == Head(input)
            p   == [line  |-> ParseLine(tok, buffer.current_line),
                    id    |-> ParseId(tok),
                    count |-> ParseCount(tok, ubInt)]
            st  == [configs |-> configs, fs |-> fs, fpos |-> fpos, buffer |-> buffer]
            res == IF ubStore = "crash"
                   THEN [Unchanged(st) EXCEPT !.pc = "crashed"]
                   ELSE Dispatch(st, p, ubRead, file_name)
        IN  /\ cmd' = tok
            /\ cmd_line' = p.line
            /\ cmd_id' = p.id
            /\ cmd_count' = p.count
            /\ pc' = res.pc
            /\ configs' = res.configs
            /\ fs' = res.fs
            /\ fpos' = res.fpos
            /\ buffer' = res.buffer
            /\ out' = res.out
            /\ err' = res.err
    /\ input' = Tail(input)
    /\ hist' = Append(hist, Head(input))
    /\ UNCHANGED pagevars

\* cmd_process() when fscanf meets the end of the input stream
CmdEOF ==
    /\ pc = "loop"
    /\ input = <<>>
    /\ pc' = "exit"
    /\ UNCHANGED <<configs, fs, fpos, buffer, input, hist,
                   cmd, cmd_line, cmd_id, cmd_count, out, err>>
    /\ UNCHANGED pagevars

\* buffer_clean() and the return of main()
BufferClean ==
    /\ pc = "exit"
    /\ pc' = "done"
    /\ UNCHANGED <<configs, fs, fpos, buffer, input, hist,
                   cmd, cmd_line, cmd_id, cmd_count, out, err>>
    /\ UNCHANGED pagevars

Next == BufferSetup \/ CmdProcess \/ CmdEOF \/ BufferClean

Spec == Init /\ [][Next]_vars

(***************************************************************************)
(* Page.cpp: a Page is its lines, each a sequence of characters, and its   *)
(* cursor, whose coordinates count from 0.  page_state tells whether an    *)
(* access outside the lines has ended the process.                         *)
(***************************************************************************)
\* the characters add_char is given
Chars == {"a", "b"}
\* the offsets move_cursor is given
Offsets == -2..2
\* the files file_read is given
PageFiles == { <<>>, << <<"a">> >>, << <<>>, <<"a", "b">> >> }

\* Page::file_read: the lines of the file, or one empty line if it has none
file_read(content) ==
    [lines  |-> IF Len(content) = 0 THEN << <<>> >> ELSE content,
     cursor |-> [x |-> 0, y |-> 0]]

\* Page::add_newline
add_newline(pg) ==
    LET y1 == pg.cursor.y + 1
    IN  [lines  |-> IF y1 = Len(pg.lines) THEN Append(pg.lines, <<>>) ELSE pg.lines,
         cursor |-> [x |-> 0, y |-> y1]]

\* Page::add_char on a cursor row that is a line: lines[cursor.pos.y] is
\* the element y + 1 of the sequence
add_char(pg, src) ==
    LET row  == pg.cursor.y + 1
        col  == pg.cursor.x + 1
        line == pg.lines[row]
    IN  [lines  |-> [pg.lines EXCEPT ![row] =
                        IF pg.cursor.x < Len(line)
                        THEN [line EXCEPT ![col] = src]
                        ELSE Append(line, src)],
         cursor |-> [pg.cursor EXCEPT !.x = @ + 1]]

\* one coordinate of Page::move_cursor
move_coord(pos, d) ==
    IF d < 0
    THEN IF pos >= -d THEN pos + d ELSE pos
    ELSE pos + d

\* Page::move_cursor
move_cursor(pg, x, y) ==
    [pg EXCEPT !.cursor = [x |-> move_coord(pg.cursor.x, x),
                           y |-> move_coord(pg.cursor.y, y)]]

\* a Page after file_read, and led.c idle
PageInit ==
    /\ page \in { file_read(content) : content \in PageFiles }
    /\ page_state = "live"
    /\ pc = "done"
    /\ configs = [output_stream |-> "stdout", buffer_length |-> BufferLength,
                  line_width |-> DEFAULTLINEWIDTH]
    /\ fs = [n \in {"a.txt"} |-> <<>>]
    /\ fpos = 0
    /\ buffer = [length |-> 0, last_line |-> 0, current_line |-> 0, line_ptr |-> <<>>]
    /\ input = <<>>
    /\ hist = <<>>
    /\ cmd = <<>>
    /\ cmd_line = 0
    /\ cmd_id = <<>>
    /\ cmd_count = 0
    /\ out = <<>>
    /\ err = <<>>

AddNewline ==
    /\ page_state = "live"
    /\ page.cursor.y < MaxCoord
    /\ page' = add_newline(page)
    /\ UNCHANGED <<page_state, ledvars>>

\* add_char; lines[cursor.pos.y] on a row that is no line is undefined: the
\* access ends the process, or it goes on and writes outside the lines
AddChar ==
    /\ page_state = "live"
    /\ page.cursor.x < MaxCoord
    /\ \E src \in Chars :
        IF page.cursor.y < Len(page.lines)
        THEN /\ page' = add_char(page, src)
             /\ UNCHANGED page_state
        ELSE \/ /\ page_state' = "crashed"
                /\ UNCHANGED page
             \/ /\ page' = [page EXCEPT !.cursor.x = @ + 1]
                /\ UNCHANGED page_state
    /\ UNCHANGED ledvars

MoveCursor ==
    /\ page_state = "live"
    /\ \E x \in Offsets, y \in Offsets :
        /\ page.cursor.x + x <= MaxCoord
        /\ page.cursor.y + y <= MaxCoord
        /\ page' = move_cursor(page, x, y)
    /\ UNCHANGED <<page_state, ledvars>>

PageNext == AddNewline \/ AddChar \/ MoveCursor

SpecPage == PageInit /\ [][PageNext]_vars

(***************************************************************************)
(* Properties.                                                             *)
(***************************************************************************)
\* the step is a cmd_process call that read a token
TokenStep == hist' # hist
\* at least one token has been processed; cmd, cmd_line, cmd_id, cmd_count,
\* out and err are those of the last one
Processed == hist # <<>>

\* a token as the grammar reads it: the leading digit run, the trailing
\* digit run of what is left, and the remainder between them
LeadDigits(tok) == SubSeq(tok, 1, DigitRun(tok, 1))
AfterLead(tok) == SubSeq(tok, DigitRun(tok, 1) + 1, Len(tok))
TrailLen(tok) == DigitRun(string_reverse(AfterLead(tok)), 1)
Remainder(tok) == SubSeq(AfterLead(tok), 1, Len(AfterLead(tok)) - TrailLen(tok))
TrailDigits(tok) ==
    SubSeq(AfterLead(tok), Len(AfterLead(tok)) - TrailLen(tok) + 1, Len(AfterLead(tok)))

\* the value of a run of digit characters, when nine digits hold it
Fits9(run) == Len(StripZeros([i \in 1..Len(run) |-> DigitVal(run[i])])) <= 9
RunValue(run) == SmallValue(StripZeros([i \in 1..Len(run) |-> DigitVal(run[i])]), 0)

\* digits, one non-digit character, digits
AddrIdCount(tok) ==
    /\ LeadDigits(tok) # <<>>
    /\ TrailDigits(tok) # <<>>
    /\ Len(Remainder(tok)) = 1

\* C1 (as claimed): once initialised, and after every processed token, the
\* cursor is a line of the buffer: 1 <= current_line <= last_line.
C1_CursorInRange ==
    pc \in {"loop", "exit", "done"} =>
        buffer.current_line >= 1 /\ buffer.current_line <= buffer.last_line

C3_CountPositive == Processed => cmd_count >= 1

\* the ids C4 names as known
ClaimedIds == {"v", "r", "l", "s", "i", "a", "c", "w", "q"}

\* what a rejected token leaves: the error reported, nothing printed, the
\* buffer as it was, the loop going on
Rejected ==
    /\ err' = <<"Invalid command">>
    /\ buffer' = buffer
    /\ pc' = "loop"

\* C4 (as claimed): a token whose id is one character other than v, r, l,
\* s, i, a, c, w, q is reported and changes nothing of the buffer, and the
\* loop goes on.
C4_UnknownIdRejected ==
    [][(TokenStep /\ Len(cmd_id') = 1 /\ cmd_id'[1] \notin ClaimedIds) => Rejected]_vars

\* C4 (amended): a token whose id is one character other than f, v, r, l,
\* s, i, a, c, w, q is reported and changes nothing of the buffer, and the
\* loop goes on.
C4_NoCaseIdRejected ==
    [][(TokenStep /\ Len(cmd_id') = 1 /\ cmd_id'[1] \notin CaseIds) => Rejected]_vars

\* C4 witness: the token 2x100 was reported as invalid
C4_Witness ==
    /\ Processed
    /\ cmd = <<"2", "x", "1", "0", "0">>
    /\ cmd_id = <<"x">>
    /\ err = <<"Invalid command">>
    /\ pc = "loop"

\* C5 (as claimed): a token whose remainder between the leading and the
\* trailing digit run is not exactly one character is rejected as invalid
\* and runs no command.
C5_BadRemainderRejected ==
    [][(TokenStep /\ Len(Remainder(cmd')) # 1) => (Rejected /\ out' = <<>>)]_vars

\* C6 (as claimed): r with count 1 and address A in 1..last_line prints
\* line A and leaves the cursor at A.
C6_ReadAtAddress ==
    [][(/\ TokenStep
        /\ cmd_id' = <<"r">>
        /\ cmd_count' = 1
        /\ cmd_line' >= 1 /\ cmd_line' <= buffer.last_line)
       => /\ out' = <<OutLine(cmd_line', buffer.line_ptr[cmd_line'])>>
          /\ buffer'.current_line = cmd_line']_vars

\* C7: s with an address in 1..last_line moves the cursor there and changes
\* nothing else; with an address outside it reports the failure and leaves
\* the buffer as it was.
C7_Setline ==
    [][(TokenStep /\ cmd_id' = <<"s">>) =>
        IF cmd_line' >= 1 /\ cmd_line' <= buffer.last_line
        THEN buffer' = [buffer EXCEPT !.current_line = cmd_line']
        ELSE /\ buffer' = buffer
             /\ out' \in {<<OutMsg("EOF", 0)>>, <<OutMsg("Invalid line number", 0)>>}]_vars

\* C7 witness: 3s on a buffer of fewer than 3 lines printed EOF
C7_Witness ==
    /\ Processed
    /\ cmd = <<"3", "s">>
    /\ cmd_line = 3
    /\ buffer.last_line < 3
    /\ out = <<OutMsg("EOF", 0)>>

\* C8 (as claimed): after loading an empty backing file the buffer has one
\* line, which is empty, and the cursor is on line 1.
C8_EmptyLoad ==
    (/\ pc = "loop"
     /\ hist = <<>>
     /\ configs.output_stream # "stdout"
     /\ fs[configs.output_stream] = <<>>)
    => /\ buffer.last_line = 1
       /\ buffer.line_ptr[1] = ""
       /\ buffer.current_line = 1

\* C9 (as claimed): 1i3 with the texts a, b, c on a loaded buffer puts a,
\* b, c before the old lines and makes the buffer 3 lines longer.
C9_InsertThree ==
    [][(TokenStep /\ cmd' = <<"1", "i", "3">> /\ buffer.last_line >= 1)
       => /\ Export(buffer') = <<"a", "b", "c">> \o Export(buffer)
          /\ buffer'.last_line = buffer.last_line + 3]_vars

\* C10 (as claimed): from a buffer loaded with alpha, beta: v prints
\* 1: alpha and 2: beta, then 2s puts the cursor on 2, then a with the text
\* gamma makes the exported buffer alpha, beta, gamma.
C10_EndToEnd ==
    (/\ configs.output_stream = "a.txt"
     /\ fs["a.txt"] = <<"alpha", "beta">>
     /\ pc = "loop")
    => /\ hist = << <<"v">> >> =>
            out = <<OutLine(1, "alpha"), OutLine(2, "beta")>>
       /\ hist = << <<"v">>, <<"2", "s">> >> => buffer.current_line = 2
       /\ hist = << <<"v">>, <<"2", "s">>, <<"a">> >> =>
            Export(buffer) = <<"alpha", "beta", "gamma">>

\* the process has ended: main() returned, or a fault ended it
Terminated == pc \in {"done", "crashed"}

\* what is left to do: two steps for every unread token and the rest of
\* main(); nothing once the process has ended
Remaining ==
    IF Terminated THEN 0
    ELSE 2 * Len(input) + (CASE pc = "start" -> 3 [] pc = "loop" -> 2
                              [] OTHER -> 1)

\* C11: the loop stops as soon as a q token is dispatched or the input
\* stream is at its end: the step that dispatches q leaves the loop, no
\* token is read once the loop is left, and at the end of input the only
\* step leaves the loop.  Every session over a finite stream terminates:
\* every step brings the end strictly nearer, and nothing is left to do
\* exactly when the process has ended.
C11_StopsAndTerminates ==
    /\ [][(TokenStep /\ cmd_id' = <<"q">>) => pc' = "exit"]_vars
    /\ [][pc # "loop" => ~TokenStep]_vars
    /\ [][(pc = "loop" /\ input = <<>>) => pc' = "exit"]_vars
    /\ [][Remaining' < Remaining /\ Remaining' >= 0]_vars
    /\ [](Remaining = 0 <=> Terminated)

\* C11 witness: q was dispatched with a token still unread, and main()
\* returned without reading it
C11_Witness ==
    /\ pc = "done"
    /\ Processed
    /\ cmd_id = <<"q">>
    /\ input # <<>>

\* the target line a token names: its leading digit run, when that is a
\* line of the buffer
HasTarget(tok, buf) ==
    /\ LeadDigits(tok) # <<>>
    /\ Fits9(LeadDigits(tok))
    /\ RunValue(LeadDigits(tok)) >= 1
    /\ RunValue(LeadDigits(tok)) <= buf.last_line
Target(tok) == RunValue(LeadDigits(tok))

\* C12 (as claimed): a token with an in-range target line N makes N the
\* current line before its command runs: with l the line reported is N,
\* with r the first line printed is line N with its own content, and a
\* command that does not move the cursor leaves it on N.
C12_TargetIsCurrent ==
    [][(TokenStep /\ HasTarget(cmd', buffer) /\ IsCase(cmd_id')) =>
         /\ cmd_id' = <<"l">> => out' = <<OutMsg("Line", Target(cmd'))>>
         /\ cmd_id' = <<"r">> =>
                /\ out' # <<>>
                /\ out'[1] = OutLine(Target(cmd'), buffer.line_ptr[Target(cmd')])
         /\ cmd_id' \in {<<"l">>, <<"v">>, <<"i">>, <<"a">>, <<"c">>, <<"w">>} =>
                buffer'.current_line = Target(cmd')]_vars

C14_RepetitionOutOfRange ==
    [][(/\ TokenStep
        /\ cmd_id' = <<"r">>
        /\ cmd_count' >= 1
        /\ cmd_line' > buffer.last_line - cmd_count' + 1) =>
          /\ pc' = "loop"
          /\ \E i \in DOMAIN out' : out'[i].k = "EOF"
          /\ \A i \in DOMAIN out' :
                out'[i].k = "line" => out'[i].n >= 1 /\ out'[i].n <= buffer.last_line
          /\ buffer'.line_ptr = buffer.line_ptr
          /\ buffer'.last_line = buffer.last_line
          /\ buffer'.current_line
                <= Max(buffer.current_line, buffer.last_line + 1)]_vars

\* C15 (as claimed): loading a file of more lines than buffer_length
\* succeeds: the session goes on, every line of the file is a line of the
\* buffer, and the lines loaded are no more than the slots allocated.
C15_LoadPastCapacity ==
    (/\ Processed
     /\ cmd_id = <<"f">>
     /\ Len(fs[configs.output_stream]) > configs.buffer_length)
    => /\ pc # "crashed"
       /\ Export(buffer) = fs[configs.output_stream]
       /\ buffer.last_line <= buffer.length

\* the largest unsigned int, digit by digit
UINT_MAX_DIGITS == <<4,2,9,4,9,6,7,2,9,5>>

\* the value of a run of digit characters is above that of the digits max
RunExceeds(run, max) ==
    LET ds == StripZeros([i \in 1..Len(run) |-> DigitVal(run[i])])
    IN  \/ Len(ds) > Len(max)
        \/ Len(ds) = Len(max) /\ DigitsGreater(ds, max)

\* C16 (as claimed): a token whose leading or trailing digit run does not
\* fit the unsigned integer range is reported as an error and runs no
\* command: nothing is printed, the buffer stays as it was, the loop goes on.
C16_OverflowRejected ==
    [][(/\ TokenStep
        /\ \/ RunExceeds(LeadDigits(cmd'), UINT_MAX_DIGITS)
           \/ RunExceeds(TrailDigits(cmd'), UINT_MAX_DIGITS)) =>
          /\ err' # <<>>
          /\ out' = <<>>
          /\ buffer' = buffer
          /\ pc' = "loop"]_vars

\* C17 (as claimed): on a buffer loaded from a backing file, after a w
\* token, the first or a later one, the file holds the lines 1..last_line
\* of the buffer in order and nothing else.
C17_WriteLeavesBufferInFile ==
    (/\ Processed
     /\ cmd_id = <<"w">>
     /\ configs.output_stream # "stdout"
     /\ pc # "crashed")
    => fs[configs.output_stream] = Export(buffer)

\* C18 (as claimed): parsing a token of at most DEFAULTLINEWIDTH
\* characters, the sentinel digit included, writes no byte beyond the
\* DEFAULTLINEWIDTH + 1 bytes of the array the token is stored in.
C18_TokenFitsStorage ==
    (Processed /\ Len(cmd) <= DEFAULTLINEWIDTH) => StorageUsed(cmd) <= StorageSize

\* C19 (as claimed): on a Page with at least one line and the cursor on a
\* line, after any add_newline, add_char and move_cursor calls the cursor
\* row is an index of a line, no add_char has indexed a missing line, and
\* no coordinate is below 0.
C19_CursorRowIsALine ==
    /\ page.cursor.y < Len(page.lines)
    /\ page_state = "live"
    /\ page.cursor.x >= 0
    /\ page.cursor.y >= 0

====
